---------------------------- MODULE Spec2Model ----------------------------
(***************************************************************************)
(* A model of gocharm's charm build pipeline (cmd/gocharm/gocharm.go):     *)
(* buildCharm and its stages compile, writeHooks, writeMeta, writeConfig,  *)
(* the charm.ReadCharmDir sanity check and vendorDeps, acting on the       *)
(* destination charm directory; and of the execution of a generated hook   *)
(* stub (hookStubTemplate) on a deployment target.                         *)
(***************************************************************************)
EXTENDS Integers, Sequences, FiniteSets, TLC

VARIABLES
    pc,        \* the position of buildCharm: "idle", a stage name, "returned"
    err,       \* the error buildCharm returned (<<>> is nil), outermost message first
    params,    \* buildCharmParams: the base name of pkg.Dir, and source
    info,      \* the CharmInfo returned by registeredCharmInfo
    baseMeta,  \* pkg.Dir/metadata.yaml as writeMeta found it
    disk,      \* the destination charm directory (and tempDir/runhook)
    hooks0,    \* the hooks directory as it was when the running build started
    written,   \* the paths the running build has written so far
    removed,   \* the paths the running build has removed so far
    trace,     \* the stages the running build has entered, in order
    reparse,   \* the outcome of charm.ReadCharmDir in the running build
    tools,     \* the outcome of each external tool the running build has run
    builds,    \* builds started so far
    edits,     \* hand edits of hook files made so far
    stub,      \* the hook stub being executed on the deployment target
    spc,       \* the index of the stub's next command; 0 when no stub runs
    status,    \* "none", "running", "exit0", "failed"
    calls,     \* the arguments of the runhook invocations of this stub execution
    target,    \* the deployment target's charm directory
    runs,      \* stub executions started so far
    hostEnv,   \* os.Environ(): the environment of the gocharm process
    goEnv,     \* the environment given to the last command that was given one
    envCall    \* the call that made goEnv

vars == <<pc, err, params, info, baseMeta, disk, hooks0, written, removed, trace,
          reparse, tools, builds, edits, stub, spc, status, calls, target, runs,
          hostEnv, goEnv, envCall>>

buildVars == <<pc, err, params, info, baseMeta, disk, hooks0, written, removed,
               trace, reparse, tools, builds, edits>>

stubVars == <<stub, spc, status, calls, target, runs>>

envVars == <<hostEnv, goEnv, envCall>>

---------------------------------------------------------------------------
(* Bounds of the model. *)
MaxBuilds == 2
MaxEdits == 1
MaxRuns == 2
MaxEnv == 3

(* The names the inputs are drawn from. *)
HookNames == {"install", "start"}
RelNames == {"db", "ring"}
CharmDirBase == "wordpress"
PkgDirBases == {"wordpress", "gocharm-src"}

---------------------------------------------------------------------------
(* Program constants. *)
godepPath == "github.com/tools/godep"
autogenMessage == "This file is automatically generated. Do not edit."
yamlAutogenComment == <<"# ", autogenMessage, "\n">>

RoleProvider == "provider"
RoleRequirer == "requirer"
RolePeer == "peer"
Roles == {RoleProvider, RoleRequirer, RolePeer, "bogus"}

(* errgo: an error is the sequence of its messages, outermost first. *)
New(msg) == <<msg>>
Wrap(e) == e
Wrapf(e, msg) == <<msg>> \o e

(* os/exec: what the Run method of exec.Cmd returns for each outcome of the tool. *)
NoError == [type |-> "nil", Err |-> "", msg |-> <<>>]
Run(tool, outcome) ==
    CASE outcome = "notfound" ->
           [type |-> "exec.Error", Err |-> "ErrNotFound",
            msg |-> <<"exec", tool, "executable file not found in $PATH">>]
      [] outcome = "ok" -> NoError
      [] OTHER ->
           [type |-> "exec.ExitError", Err |-> "exit", msg |-> <<"exit status 1">>]

isExecNotFound_AlwaysFalse(e) == FALSE

isExecNotFound(e) == e.type = "exec.Error" /\ e.Err = "ErrNotFound"

---------------------------------------------------------------------------
(* Files.  A hook script is its list of shell commands and its executable  *)
(* bit; a YAML file is its leading comment and the value marshalled.       *)
Cmd(op, arg) == [op |-> op, arg |-> arg]
NoFile == [exists |-> FALSE, content |-> <<>>, exec |-> FALSE]
ManualContent == <<Cmd("hand-edited", "")>>

EmptyRelations == [n \in {} |-> [Role |-> RolePeer, Interface |-> ""]]
EmptyMeta == [Name |-> "", Provides |-> EmptyRelations,
              Requires |-> EmptyRelations, Peers |-> EmptyRelations]
EmptyConfig == [k \in {} |-> [Type |-> "", Description |-> "", Default |-> ""]]
NoMetaFile == [exists |-> FALSE, comment |-> <<>>, data |-> EmptyMeta]
NoConfigFile == [exists |-> FALSE, comment |-> <<>>, data |-> [Options |-> EmptyConfig]]

(* ioutil.WriteFile opening the file for append instead of truncating it. *)
WriteFile_Append(old, data, permExec) ==
    [exists |-> TRUE, content |-> old.content \o data,
     exec |-> IF old.exists THEN old.exec ELSE permExec]

(* ioutil.WriteFile(path, data, perm) on a hook script: an existing file is *)
(* truncated and keeps its mode, a new one is created with perm.            *)
WriteFile(old, data, permExec) ==
    [exists |-> TRUE, content |-> data,
     exec |-> IF old.exists THEN old.exec ELSE permExec]

EmptyDisk ==
    [goFile |-> FALSE, binExe |-> FALSE, tmpExe |-> FALSE,
     hooks |-> [h \in HookNames |-> NoFile],
     meta |-> NoMetaFile, config |-> NoConfigFile,
     compile |-> FALSE, git |-> FALSE]

(* The result of a stage: the disk it leaves, the paths it wrote and       *)
(* removed, and the error it returns (<<>> is nil).                        *)
Result(d, w, r, e) == [disk |-> d, written |-> w, removed |-> r, err |-> e]

---------------------------------------------------------------------------
(* hookStubTemplate, rendered: the commands of the stub for hookName.      *)
(* "exit0-if-exists" is `if test -e P; then exit 0; fi`, "run-if-exists"   *)
(* is `if test -e P; then "$CHARM_DIR/compile"; fi`.                       *)
RunhookCmd(hookName) == Cmd("$CHARM_DIR/bin/runhook", hookName)

hookStubTemplate(p) ==
    (IF p.HookName = "install"
       THEN << Cmd("apt-get install", "golang git mercurial"),
               Cmd("exit0-if-exists", "$CHARM_DIR/bin/runhook"),
               Cmd("export GOPATH", "$CHARM_DIR"),
               Cmd("go get", p.GodepPath),
               Cmd("$CHARM_DIR/compile", ""),
               Cmd("$CHARM_DIR/bin/runhook", "install") >>
       ELSE IF p.Source
       THEN << Cmd("run-if-exists", "$CHARM_DIR/compile-always") >>
       ELSE << >>)
    \o << RunhookCmd(p.HookName) >>

hookStub(source, hookName) ==
    hookStubTemplate([Source |-> source, HookName |-> hookName,
                      GodepPath |-> godepPath])

---------------------------------------------------------------------------
(* The environment of a command.  An entry is the string "KEY=value",      *)
(* modelled as the sequence of its characters, so that strings.Index and   *)
(* strings.HasPrefix do on it what they do in setenv.                      *)

(* strings.Index(s, "="), counting from 1; 0 when there is none. *)
Index(s) ==
    IF \E i \in DOMAIN s : s[i] = "="
    THEN CHOOSE i \in DOMAIN s : s[i] = "=" /\ \A j \in 1..(i - 1) : s[j] # "="
    ELSE 0

(* strings.HasPrefix(s, prefix) *)
HasPrefix(s, prefix) ==
    Len(s) >= Len(prefix) /\ SubSeq(s, 1, Len(prefix)) = prefix

(* The value Go's panic leaves in place of an environment. *)
Panic == << <<"p", "a", "n", "i", "c">> >>

(* setenv matching the variable's name without the "=" after it. *)
setenv_PrefixNoEq(env, entry) ==
    LET i == Index(entry)
        prefix == SubSeq(entry, 1, i - 1)
        found == {k \in DOMAIN env : HasPrefix(env[k], prefix)}
    IN  IF i = 0 THEN Panic
        ELSE IF found # {}
        THEN [env EXCEPT ![CHOOSE k \in found : \A j \in found : k <= j] = entry]
        ELSE Append(env, entry)

(* setenv(env, entry): the first entry of env that starts with entry's     *)
(* "KEY=" is replaced; with none, entry is appended.                       *)
setenv(env, entry) ==
    LET i == Index(entry)
        prefix == SubSeq(entry, 1, i)
        found == {k \in DOMAIN env : HasPrefix(env[k], prefix)}
    IN  IF i = 0 THEN Panic
        ELSE IF found # {}
        THEN [env EXCEPT ![CHOOSE k \in found : \A j \in found : k <= j] = entry]
        ELSE Append(env, entry)

(* The entries compile sets when crossCompile is true:                     *)
(* "CGOENABLED=false", "GOARCH=amd64", "GOOS=linux".                       *)
CgoEntry == <<"C", "G", "O", "E", "N", "A", "B", "L", "E", "D", "=", "f", "a", "l", "s", "e">>
GoarchEntry == <<"G", "O", "A", "R", "C", "H", "=", "a", "m", "d", "6", "4">>
GoosEntry == <<"G", "O", "O", "S", "=", "l", "i", "n", "u", "x">>

(* The environment compile passes to `go build`. *)
compileEnv(host, crossCompile) ==
    IF crossCompile
    THEN setenv(setenv(setenv(host, CgoEntry), GoarchEntry), GoosEntry)
    ELSE host

(* No command has been given an environment. *)
NoEnvCall == [op |-> "", crossCompile |-> FALSE, entry |-> <<>>]

(* The entries a host environment is made of, one for a variable:          *)
(* "PATH=/bin", "GOOS=darwin", "GOOSE=1", "GOARCH=arm", "CGOENABLED=true",  *)
(* "CGO_ENABLED=1".                                                        *)
HostEntries ==
    {<<"P", "A", "T", "H", "=", "/", "b", "i", "n">>,
     <<"G", "O", "O", "S", "=", "d", "a", "r", "w", "i", "n">>,
     <<"G", "O", "O", "S", "E", "=", "1">>,
     <<"G", "O", "A", "R", "C", "H", "=", "a", "r", "m">>,
     <<"C", "G", "O", "E", "N", "A", "B", "L", "E", "D", "=", "t", "r", "u", "e">>,
     <<"C", "G", "O", "_", "E", "N", "A", "B", "L", "E", "D", "=", "1">>}

(* The environments of the gocharm process: up to MaxEnv entries, no two   *)
(* of the same variable.                                                   *)
HostEnvs ==
    {e \in UNION {[1..n -> HostEntries] : n \in 0..MaxEnv} :
        \A i, j \in DOMAIN e : e[i] = e[j] => i = j}

(* The environment the builds run in. *)
DefaultHostEnv == <<<<"P", "A", "T", "H", "=", "/", "b", "i", "n">>, <<"G", "O", "O", "S", "=", "d", "a", "r", "w", "i", "n">>>>

(* The entries setenv is called with: those of compile, and                *)
(* "GOPATH=/go", "PATH=/usr/bin", "GOOSE=2".                                *)
SetenvEntries ==
    {CgoEntry, GoarchEntry, GoosEntry,
     <<"G", "O", "P", "A", "T", "H", "=", "/", "g", "o">>,
     <<"P", "A", "T", "H", "=", "/", "u", "s", "r", "/", "b", "i", "n">>,
     <<"G", "O", "O", "S", "E", "=", "2">>}

---------------------------------------------------------------------------
(* compile(goFile, exeFile, mainCode, crossCompile), with exeFile either   *)
(* tempDir/runhook (source) or charmDir/bin/runhook.  io names the file    *)
(* operation that fails, if any; go is the outcome of `go build`:          *)
(* "ok", "noexe" (exit status 0 but no executable), "fail" or "notfound".  *)
goFilePath == <<"src", "runhook", "runhook.go">>
binExePath == <<"bin", "runhook">>
tmpExePath == <<"tempDir", "runhook">>
hookPath(hookName) == <<"hooks", hookName>>
metaPath == <<"metadata.yaml">>
configPath == <<"config.yaml">>
compilePath == <<"compile">>
gitPath == <<"src", "runhook", ".git">>
godepsPath == <<"src", "runhook", "Godeps">>

exePath_AlwaysTemp(b) == tmpExePath

(* exe, as buildCharm chooses it. *)
exePath(b) == IF b.source THEN tmpExePath ELSE binExePath

(* buildCharm without the os.Stat(exe) check. *)
exeExists_AlwaysTrue(b, d) == TRUE

(* os.Stat(exe) *)
exeExists(b, d) == IF exePath(b) = tmpExePath THEN d.tmpExe ELSE d.binExe

(* `go build -o exe` has left the executable at exe. *)
built(b, d) ==
    IF exePath(b) = tmpExePath THEN [d EXCEPT !.tmpExe = TRUE]
                               ELSE [d EXCEPT !.binExe = TRUE]

(* compile telling a missing go from a failing one, as vendorDeps does     *)
(* for godep.                                                              *)
compile_NotFoundCheck(b, d, io, go) ==
    IF io \in {"mkdirGo", "mkdirExe"}
    THEN Result(d, {}, {}, Wrap(<<"mkdir failed">>))
    ELSE IF io = "writeGo"
    THEN Result(d, {}, {}, Wrap(<<"write failed">>))
    ELSE LET d1 == [d EXCEPT !.goFile = TRUE]
             w1 == {goFilePath}
         IN  IF go = "ok"
             THEN Result(built(b, d1), w1 \cup {exePath(b)}, {}, <<>>)
             ELSE IF go = "noexe"
             THEN Result(d1, w1, {}, <<>>)
             ELSE IF isExecNotFound(Run("go", go))
             THEN Result(d1, w1, {}, New("go executable not found"))
             ELSE Result(d1, w1, {}, Wrapf(Run("go", go).msg, "failed to build"))

compile(b, d, io, go) ==
    IF io \in {"mkdirGo", "mkdirExe"}
    THEN Result(d, {}, {}, Wrap(<<"mkdir failed">>))
    ELSE IF io = "writeGo"
    THEN Result(d, {}, {}, Wrap(<<"write failed">>))
    ELSE LET d1 == [d EXCEPT !.goFile = TRUE]
             w1 == {goFilePath}
         IN  IF go = "ok"
             THEN Result(built(b, d1), w1 \cup {exePath(b)}, {}, <<>>)
             ELSE IF go = "noexe"
             THEN Result(d1, w1, {}, <<>>)
             ELSE Result(d1, w1, {}, Wrapf(Run("go", go).msg, "failed to build"))

---------------------------------------------------------------------------
(* writeHooks(hooks).  io.op is "mkdir", "readdir" or "write" when that    *)
(* call fails ("write": the WriteFile of hook number io.at) and "none"     *)
(* when none does.  Every hook before the failing one has been written.    *)
RECURSIVE writeHookFiles(_, _, _, _)
writeHookFiles(b, hs, hooks, n) ==
    IF n = 0 THEN hs
    ELSE LET prev == writeHookFiles(b, hs, hooks, n - 1)
             hookName == hooks[n]
         IN  [prev EXCEPT ![hookName] =
                  WriteFile(prev[hookName], hookStub(b.source, hookName), TRUE)]

(* writeHooks clearing the hooks directory of every script that is not in  *)
(* the hook list, instead of only adding to it.                            *)
writeHooks_Prune(b, d, hooks, io) ==
    IF io.op = "mkdir"
    THEN Result(d, {}, {}, Wrapf(<<"mkdir failed">>, "failed to make hooks directory"))
    ELSE IF io.op = "readdir"
    THEN Result(d, {}, {}, Wrap(<<"readdir failed">>))
    ELSE LET n == IF io.op = "write" THEN io.at - 1 ELSE Len(hooks)
             stale == {h \in HookNames : d.hooks[h].exists}
                          \ {hooks[i] : i \in 1..Len(hooks)}
             kept == [h \in HookNames |-> IF h \in stale THEN NoFile ELSE d.hooks[h]]
         IN  Result([d EXCEPT !.hooks = writeHookFiles(b, kept, hooks, n)],
                    {hookPath(hooks[i]) : i \in 1..n}, {hookPath(h) : h \in stale},
                    IF io.op = "write" THEN Wrap(<<"write failed">>) ELSE <<>>)

writeHooks(b, d, hooks, io) ==
    IF io.op = "mkdir"
    THEN Result(d, {}, {}, Wrapf(<<"mkdir failed">>, "failed to make hooks directory"))
    ELSE IF io.op = "readdir"
    THEN Result(d, {}, {}, Wrap(<<"readdir failed">>))
    ELSE LET n == IF io.op = "write" THEN io.at - 1 ELSE Len(hooks)
         IN  Result([d EXCEPT !.hooks = writeHookFiles(b, d.hooks, hooks, n)],
                    {hookPath(hooks[i]) : i \in 1..n}, {},
                    IF io.op = "write" THEN Wrap(<<"write failed">>) ELSE <<>>)

(* No call of writeHooks fails. *)
NoIOFailure == [op |-> "none", at |-> 0]

(* The failures writeHooks can meet on a list of hooks. *)
HookIO(hooks) ==
    {[op |-> o, at |-> 0] : o \in {"none", "mkdir", "readdir"}}
        \cup {[op |-> "write", at |-> i] : i \in 1..Len(hooks)}

---------------------------------------------------------------------------
(* writeYAML(file, val): the file it leaves and the error it returns.      *)
(* io is "marshal" or "write" when that call fails, "none" otherwise.      *)
writeYAML(old, val, io) ==
    IF io = "marshal"
    THEN [file |-> old, err |-> Wrapf(<<"marshal failed">>, "cannot marshal YAML")]
    ELSE IF io = "write"
    THEN [file |-> old, err |-> Wrap(<<"write failed">>)]
    ELSE [file |-> [exists |-> TRUE, comment |-> yamlAutogenComment, data |-> val],
          err |-> <<>>]

YamlIO == {"none", "marshal", "write"}

(* The relations of one role, as the loop of writeMeta files them. *)
OfRole(relations, role) ==
    [name \in {n \in DOMAIN relations : relations[n].Role = role} |-> relations[name]]

(* writeMeta with the default case of the switch filing the relation as a  *)
(* peer instead of returning an error.                                     *)
writeMeta_UnknownAsPeer(b, d, relations, bm, io) ==
    IF bm.status # "ok"
    THEN Result(d, {}, {}, Wrap(<<"open failed">>))
    ELSE LET meta == [bm.meta EXCEPT !.Name = b.pkgDir,
                                     !.Provides = OfRole(relations, RoleProvider),
                                     !.Requires = OfRole(relations, RoleRequirer),
                                     !.Peers = [n \in DOMAIN relations \
                                                   (DOMAIN OfRole(relations, RoleProvider)
                                                    \cup DOMAIN OfRole(relations, RoleRequirer))
                                                |-> relations[n]]]
             y == writeYAML(d.meta, meta, io)
         IN  IF y.err # <<>>
             THEN Result(d, {}, {}, Wrapf(y.err, "cannot write metadata.yaml"))
             ELSE Result([d EXCEPT !.meta = y.file], {metaPath}, {}, <<>>)

(* writeMeta without the three make(map...) assignments: the relations of  *)
(* the base metadata.yaml stay unless CharmInfo overrides them.            *)
writeMeta_KeepBase(b, d, relations, bm, io) ==
    IF bm.status # "ok"
    THEN Result(d, {}, {}, Wrap(<<"open failed">>))
    ELSE IF \E n \in DOMAIN relations :
                relations[n].Role \notin {RoleProvider, RoleRequirer, RolePeer}
    THEN Result(d, {}, {}, New("unknown role in relation"))
    ELSE LET meta == [bm.meta EXCEPT !.Name = b.pkgDir,
                                     !.Provides = OfRole(relations, RoleProvider) @@ @,
                                     !.Requires = OfRole(relations, RoleRequirer) @@ @,
                                     !.Peers = OfRole(relations, RolePeer) @@ @]
             y == writeYAML(d.meta, meta, io)
         IN  IF y.err # <<>>
             THEN Result(d, {}, {}, Wrapf(y.err, "cannot write metadata.yaml"))
             ELSE Result([d EXCEPT !.meta = y.file], {metaPath}, {}, <<>>)

(* writeMeta(relations).  bm is pkg.Dir/metadata.yaml: bm.status is        *)
(* "missing" (os.Open fails), "malformed" (charm.ReadMeta fails) or "ok".  *)
writeMeta(b, d, relations, bm, io) ==
    IF bm.status = "missing"
    THEN Result(d, {}, {}, Wrap(<<"open failed">>))
    ELSE IF bm.status = "malformed"
    THEN Result(d, {}, {}, Wrapf(<<"parse failed">>, "cannot read metadata.yaml from pkg.Dir"))
    ELSE IF \E n \in DOMAIN relations :
                relations[n].Role \notin {RoleProvider, RoleRequirer, RolePeer}
    THEN Result(d, {}, {}, New("unknown role in relation"))
    ELSE LET meta == [bm.meta EXCEPT !.Name = b.pkgDir,
                                     !.Provides = OfRole(relations, RoleProvider),
                                     !.Requires = OfRole(relations, RoleRequirer),
                                     !.Peers = OfRole(relations, RolePeer)]
             y == writeYAML(d.meta, meta, io)
         IN  IF y.err # <<>>
             THEN Result(d, {}, {}, Wrapf(y.err, "cannot write metadata.yaml"))
             ELSE Result([d EXCEPT !.meta = y.file], {metaPath}, {}, <<>>)

(* writeConfig without the len(config) == 0 return. *)
writeConfig_NoLenCheck(b, d, config, io) ==
    LET y == writeYAML(d.config, [Options |-> config], io)
    IN  IF y.err # <<>>
        THEN Result(d, {}, {}, Wrapf(y.err, "cannot write config.yaml"))
        ELSE Result([d EXCEPT !.config = y.file], {configPath}, {}, <<>>)

(* writeConfig removing config.yaml when the config mapping is empty. *)
writeConfig_RemoveWhenEmpty(b, d, config, io) ==
    IF DOMAIN config = {}
    THEN Result([d EXCEPT !.config = NoConfigFile], {},
                IF d.config.exists THEN {configPath} ELSE {}, <<>>)
    ELSE LET y == writeYAML(d.config, [Options |-> config], io)
         IN  IF y.err # <<>>
             THEN Result(d, {}, {}, Wrapf(y.err, "cannot write config.yaml"))
             ELSE Result([d EXCEPT !.config = y.file], {configPath}, {}, <<>>)

(* writeConfig(config). *)
writeConfig(b, d, config, io) ==
    IF DOMAIN config = {}
    THEN Result(d, {}, {}, <<>>)
    ELSE LET y == writeYAML(d.config, [Options |-> config], io)
         IN  IF y.err # <<>>
             THEN Result(d, {}, {}, Wrapf(y.err, "cannot write config.yaml"))
             ELSE Result([d EXCEPT !.config = y.file], {configPath}, {}, <<>>)

---------------------------------------------------------------------------
(* vendorDeps().  git is the outcome of `git init`: "ok", "notfound",      *)
(* "fail" (fails before creating .git) or "failPartial" (fails after       *)
(* creating it); godep is the outcome of `godep save`.  The deferred       *)
(* os.RemoveAll is registered only once git init has succeeded.            *)
(* vendorDeps dropping the error of `godep save`. *)
vendorDeps_IgnoreGodepErr(b, d, git, godep) ==
    IF git # "ok"
    THEN Result([d EXCEPT !.git = d.git \/ git = "failPartial"],
                IF git = "failPartial" THEN {gitPath} ELSE {}, {},
                Wrapf(Run("git", git).msg, "cannot git init directory"))
    ELSE Result([d EXCEPT !.git = FALSE],
                {gitPath} \cup (IF godep = "ok" THEN {godepsPath} ELSE {}),
                {gitPath}, <<>>)

vendorDeps(b, d, git, godep) ==
    IF git # "ok"
    THEN Result([d EXCEPT !.git = d.git \/ git = "failPartial"],
                IF git = "failPartial" THEN {gitPath} ELSE {}, {},
                Wrapf(Run("git", git).msg, "cannot git init directory"))
    ELSE LET cmdErr == Run("godep", godep)
             d1 == [d EXCEPT !.git = FALSE]
             w1 == {gitPath} \cup (IF godep = "ok" THEN {godepsPath} ELSE {})
         IN  IF cmdErr.type # "nil"
             THEN IF isExecNotFound(cmdErr)
                  THEN Result(d1, w1, {gitPath},
                              New("godep executable not found; get it with: go get github.com/tools/godep"))
                  ELSE Result(d1, w1, {gitPath}, Wrap(cmdErr.msg))
             ELSE Result(d1, w1, {gitPath}, <<>>)

GitOutcomes == {"ok", "fail", "failPartial", "notfound"}
ToolOutcomes == {"ok", "fail", "notfound"}

---------------------------------------------------------------------------
(* The inputs of a build. *)
Relation(role, interface) == [Role |-> role, Interface |-> interface]

(* The hook lists: the sequences of distinct hook names. *)
HookLists ==
    {hs \in UNION {[1..n -> HookNames] : n \in 0..Cardinality(HookNames)} :
        \A i, j \in DOMAIN hs : hs[i] = hs[j] => i = j}

(* Every assignment of a role to every set of relation names. *)
AllRelationMaps(names) ==
    UNION {[ns -> {Relation(r, "http") : r \in Roles}] : ns \in SUBSET names}

(* The relation maps the builds draw from: none, relations of valid roles, *)
(* and a relation of an unknown role beside a valid one.                   *)
RelationMaps ==
    {EmptyRelations,
     [n \in {"db", "ring"} |->
         IF n = "db" THEN Relation(RoleRequirer, "http") ELSE Relation(RolePeer, "http")],
     [n \in {"db", "ring"} |->
         IF n = "db" THEN Relation(RoleProvider, "http") ELSE Relation("bogus", "http")]}

DebugOption == [Type |-> "boolean", Description |-> "debug mode", Default |-> "false"]
ConfigMaps == {EmptyConfig, [k \in {"debug"} |-> DebugOption]}

(* The CharmInfo values registeredCharmInfo may return. *)
CharmInfos ==
    {[Hooks |-> hs, Relations |-> rs, Config |-> c] :
        hs \in HookLists, rs \in RelationMaps, c \in ConfigMaps}

NoInfo == [Hooks |-> <<>>, Relations |-> EmptyRelations, Config |-> EmptyConfig]

(* The base metadata.yaml of the package directory. *)
BaseMetas ==
    {[status |-> "missing", meta |-> EmptyMeta],
     [status |-> "malformed", meta |-> EmptyMeta],
     [status |-> "ok",
      meta |-> [Name |-> "orig",
                Provides |-> [n \in {"db"} |-> Relation(RoleProvider, "old")],
                Requires |-> [n \in {"legacy"} |-> Relation(RoleRequirer, "old")],
                Peers |-> [n \in {"ring"} |-> Relation(RolePeer, "old")]]]}

NoBase == [status |-> "missing", meta |-> EmptyMeta]

(* No external tool has run. *)
NoTools == [go |-> "", git |-> "", godep |-> ""]

---------------------------------------------------------------------------
(* buildCharm, stage by stage. *)
Idle == pc \in {"idle", "returned"}

Succeeded == pc = "returned" /\ err = <<>>

Failed == pc = "returned" /\ err # <<>>

(* A stage's error recorded without the return: the build goes on. *)
StageEnds_NoAbort(stage, res, msg, next) ==
    /\ disk' = res.disk
    /\ written' = written \cup res.written
    /\ removed' = removed \cup res.removed
    /\ trace' = Append(trace, stage)
    /\ pc' = next
    /\ err' = (IF res.err # <<>> THEN Wrap(res.err) ELSE err)

(* A stage ends: its result is applied; an error, wrapped with msg, makes  *)
(* buildCharm return, otherwise the build goes on to the stage next.       *)
StageEnds(stage, res, msg, next) ==
    /\ disk' = res.disk
    /\ written' = written \cup res.written
    /\ removed' = removed \cup res.removed
    /\ trace' = Append(trace, stage)
    /\ IF res.err # <<>>
       THEN pc' = "returned" /\ err' = (IF msg = "" THEN Wrap(res.err) ELSE Wrapf(res.err, msg))
       ELSE pc' = next /\ err' = <<>>

(* buildCharm is called: generateCode and the choice of exe.  tempDir is   *)
(* a scratch directory of this invocation, so no tempDir/runhook is there. *)
Start(source) ==
    /\ Idle
    /\ builds < MaxBuilds
    /\ builds' = builds + 1
    /\ params' = [params EXCEPT !.source = source]
    /\ pc' = "compile"
    /\ err' = <<>>
    /\ info' = NoInfo
    /\ baseMeta' = NoBase
    /\ disk' = [disk EXCEPT !.tmpExe = FALSE]
    /\ hooks0' = disk.hooks
    /\ written' = {}
    /\ removed' = {}
    /\ trace' = <<>>
    /\ reparse' = "notrun"
    /\ tools' = NoTools
    /\ UNCHANGED <<edits, stubVars, envVars>>

Compile(io, go) ==
    /\ pc = "compile"
    /\ StageEnds("compile", compile(params, disk, io, go),
                 "cannot build hooks main package", "stat")
    /\ tools' = [tools EXCEPT !.go = IF io = "none" THEN go ELSE ""]
    /\ IF io = "none"
       THEN /\ goEnv' = compileEnv(hostEnv, TRUE)
            /\ envCall' = [op |-> "compile", crossCompile |-> TRUE, entry |-> <<>>]
       ELSE UNCHANGED <<goEnv, envCall>>
    /\ UNCHANGED <<params, info, baseMeta, hooks0, reparse, builds, edits, stubVars, hostEnv>>

StatExe ==
    /\ pc = "stat"
    /\ StageEnds("stat",
                 Result(disk, {}, {},
                        IF exeExists(params, disk) THEN <<>>
                        ELSE New("runhook command not built")),
                 "", "introspect")
    /\ UNCHANGED <<params, info, baseMeta, hooks0, reparse, tools, builds, edits, stubVars, envVars>>

Introspect(ok, i) ==
    /\ pc = "introspect"
    /\ info' = (IF ok THEN i ELSE NoInfo)
    /\ StageEnds("introspect",
                 Result(disk, {}, {}, IF ok THEN <<>> ELSE <<"cannot get charm info">>),
                 "", "writeHooks")
    /\ UNCHANGED <<params, baseMeta, hooks0, reparse, tools, builds, edits, stubVars, envVars>>

WriteHooks(io) ==
    /\ pc = "writeHooks"
    /\ StageEnds("writeHooks", writeHooks(params, disk, info.Hooks, io),
                 "cannot write hooks to charm", "writeMeta")
    /\ UNCHANGED <<params, info, baseMeta, hooks0, reparse, tools, builds, edits, stubVars, envVars>>

WriteMeta(bm, io) ==
    /\ pc = "writeMeta"
    /\ baseMeta' = bm
    /\ StageEnds("writeMeta", writeMeta(params, disk, info.Relations, bm, io),
                 "cannot write metadata.yaml", "writeConfig")
    /\ UNCHANGED <<params, info, hooks0, reparse, tools, builds, edits, stubVars, envVars>>

WriteConfig(io) ==
    /\ pc = "writeConfig"
    /\ StageEnds("writeConfig", writeConfig(params, disk, info.Config, io),
                 "cannot write config.yaml", "readCharmDir")
    /\ UNCHANGED <<params, info, baseMeta, hooks0, reparse, tools, builds, edits, stubVars, envVars>>

(* buildCharm without the `if b.source` gate around vendorDeps. *)
afterReadCharmDir_AlwaysVendor(b) == "vendorDeps"

(* The stage after a successful charm.ReadCharmDir. *)
afterReadCharmDir(b) == IF b.source THEN "vendorDeps" ELSE "returned"

(* The sanity check with its error dropped. *)
ReadCharmDir_NoCheck(ok) ==
    /\ pc = "readCharmDir"
    /\ reparse' = (IF ok THEN "ok" ELSE "failed")
    /\ StageEnds("readCharmDir", Result(disk, {}, {}, <<>>), "",
                 afterReadCharmDir(params))
    /\ UNCHANGED <<params, info, baseMeta, hooks0, tools, builds, edits, stubVars, envVars>>

ReadCharmDir(ok) ==
    /\ pc = "readCharmDir"
    /\ reparse' = (IF ok THEN "ok" ELSE "failed")
    /\ StageEnds("readCharmDir",
                 Result(disk, {}, {}, IF ok THEN <<>> ELSE <<"invalid charm">>),
                 "charm will not read correctly; we've broken it, sorry",
                 afterReadCharmDir(params))
    /\ UNCHANGED <<params, info, baseMeta, hooks0, tools, builds, edits, stubVars, envVars>>

VendorDeps(git, godep) ==
    /\ pc = "vendorDeps"
    /\ StageEnds("vendorDeps", vendorDeps(params, disk, git, godep),
                 "cannot get dependencies", "writeCompile")
    /\ tools' = [tools EXCEPT !.git = git,
                              !.godep = IF git = "ok" THEN godep ELSE ""]
    /\ UNCHANGED <<params, info, baseMeta, hooks0, reparse, builds, edits, stubVars, envVars>>

WriteCompile(ok) ==
    /\ pc = "writeCompile"
    /\ StageEnds("writeCompile",
                 IF ok THEN Result([disk EXCEPT !.compile = TRUE], {compilePath}, {}, <<>>)
                       ELSE Result(disk, {}, {}, <<"write failed">>),
                 "", "returned")
    /\ UNCHANGED <<params, info, baseMeta, hooks0, reparse, tools, builds, edits, stubVars, envVars>>

(* Between builds an operator hand-edits (or creates) a hook script; the   *)
(* bookkeeping of the build that returned is dropped.                      *)
OperatorEdit(hookName, exec) ==
    /\ Idle
    /\ edits < MaxEdits
    /\ edits' = edits + 1
    /\ disk' = [disk EXCEPT !.hooks[hookName] =
                    [exists |-> TRUE, content |-> ManualContent, exec |-> exec]]
    /\ pc' = "idle"
    /\ err' = <<>>
    /\ info' = NoInfo
    /\ baseMeta' = NoBase
    /\ hooks0' = disk'.hooks
    /\ written' = {}
    /\ removed' = {}
    /\ trace' = <<>>
    /\ reparse' = "notrun"
    /\ tools' = NoTools
    /\ UNCHANGED <<params, builds, stubVars, envVars>>

---------------------------------------------------------------------------
(* The execution of a hook stub by /bin/sh under `set -e` on a deployment  *)
(* target.  ok is the exit status of the command run (TRUE is 0).          *)
(* The result: the target's files, whether runhook was invoked, and how    *)
(* the shell goes on: "next", "exit0" or "failed".                         *)
Step(t, invoked, goesOn) == [target |-> t, invoked |-> invoked, goesOn |-> goesOn]

(* $CHARM_DIR/compile: runs only if the script is there; `go install`      *)
(* leaves bin/runhook when it succeeds.                                    *)
runCompile(t, ok) ==
    IF t.compile /\ ok
    THEN Step([t EXCEPT !.binExe = TRUE], FALSE, "next")
    ELSE Step(t, FALSE, "failed")

execCmd(cmd, t, ok) ==
    CASE cmd.op = "exit0-if-exists" ->
           IF t.binExe THEN Step(t, FALSE, "exit0") ELSE Step(t, FALSE, "next")
      [] cmd.op = "run-if-exists" ->
           IF t.compileAlways THEN runCompile(t, ok) ELSE Step(t, FALSE, "next")
      [] cmd.op = "$CHARM_DIR/compile" -> runCompile(t, ok)
      [] cmd.op = "$CHARM_DIR/bin/runhook" ->
           IF t.binExe THEN Step(t, TRUE, IF ok THEN "next" ELSE "failed")
                       ELSE Step(t, FALSE, "failed")
      [] cmd.op = "export GOPATH" -> Step(t, FALSE, "next")
      [] OTHER -> Step(t, FALSE, IF ok THEN "next" ELSE "failed")

StubIdle == status \in {"none", "exit0", "failed"}

StubStart(source, hookName) ==
    /\ StubIdle
    /\ runs < MaxRuns
    /\ runs' = runs + 1
    /\ stub' = [name |-> hookName, source |-> source,
                content |-> hookStub(source, hookName)]
    /\ spc' = 1
    /\ status' = "running"
    /\ calls' = <<>>
    /\ UNCHANGED <<target, buildVars, envVars>>

StubStep(ok) ==
    /\ status = "running"
    /\ LET s == execCmd(stub.content[spc], target, ok)
       IN  /\ target' = s.target
           /\ calls' = (IF s.invoked THEN Append(calls, stub.content[spc].arg) ELSE calls)
           /\ IF s.goesOn = "next"
              THEN IF spc = Len(stub.content)
                   THEN status' = "exit0" /\ spc' = 0
                   ELSE status' = "running" /\ spc' = spc + 1
              ELSE status' = s.goesOn /\ spc' = 0
    /\ UNCHANGED <<stub, runs, buildVars, envVars>>

---------------------------------------------------------------------------
NoStub == [name |-> "", source |-> FALSE, content |-> <<>>]
NoTarget == [binExe |-> FALSE, compile |-> FALSE, compileAlways |-> FALSE]

(* A deployed charm holds the executable or the script that compiles it. *)
Targets ==
    {t \in [binExe : BOOLEAN, compile : BOOLEAN, compileAlways : BOOLEAN] :
        t.binExe \/ t.compile}

BuildInit ==
    /\ pc = "idle"
    /\ err = <<>>
    /\ params \in [pkgDir : PkgDirBases, source : {FALSE}]
    /\ info = NoInfo
    /\ baseMeta = NoBase
    /\ disk = EmptyDisk
    /\ hooks0 = EmptyDisk.hooks
    /\ written = {}
    /\ removed = {}
    /\ trace = <<>>
    /\ reparse = "notrun"
    /\ tools = NoTools
    /\ builds = 0
    /\ edits = 0

StubInit ==
    /\ stub = NoStub
    /\ spc = 0
    /\ status = "none"
    /\ calls = <<>>
    /\ runs = 0

EnvInit ==
    /\ hostEnv = DefaultHostEnv
    /\ goEnv = <<>>
    /\ envCall = NoEnvCall

Init == BuildInit /\ StubInit /\ target = NoTarget /\ EnvInit

Next ==
    \/ \E source \in BOOLEAN : Start(source)
    \/ \E io \in {"none", "mkdirGo", "mkdirExe", "writeGo"},
          go \in {"ok", "noexe", "fail", "notfound"} : Compile(io, go)
    \/ StatExe
    \/ \E ok \in BOOLEAN, i \in CharmInfos : Introspect(ok, i)
    \/ \E io \in HookIO(info.Hooks) : WriteHooks(io)
    \/ \E bm \in BaseMetas, io \in YamlIO : WriteMeta(bm, io)
    \/ \E io \in YamlIO : WriteConfig(io)
    \/ \E ok \in BOOLEAN : ReadCharmDir(ok)
    \/ \E git \in GitOutcomes, godep \in ToolOutcomes : VendorDeps(git, godep)
    \/ \E ok \in BOOLEAN : WriteCompile(ok)
    \/ \E hookName \in HookNames, exec \in BOOLEAN : OperatorEdit(hookName, exec)

Spec == Init /\ [][Next]_vars

(* The stub executions on a deployment target. *)
StubSpecInit ==
    BuildInit /\ params.pkgDir = CharmDirBase /\ StubInit /\ target \in Targets /\ EnvInit

StubNext ==
    \/ \E source \in BOOLEAN, hookName \in HookNames : StubStart(source, hookName)
    \/ \E ok \in BOOLEAN : StubStep(ok)

StubSpec == StubSpecInit /\ [][StubNext]_vars

---------------------------------------------------------------------------
(* writeMeta on its own: it is applied to every assignment of roles to     *)
(* three relation names, on a bundle with or without an earlier            *)
(* metadata.yaml.                                                          *)
MetaRelNames == RelNames \cup {"legacy"}

StaleMetaFile ==
    [exists |-> TRUE, comment |-> yamlAutogenComment,
     data |-> [Name |-> "stale",
               Provides |-> [n \in {"ring"} |-> Relation(RoleProvider, "stale")],
               Requires |-> EmptyRelations,
               Peers |-> EmptyRelations]]

(* buildCharm has reached writeMeta: the earlier stages have run. *)
MetaSpecInit ==
    /\ pc = "writeMeta"
    /\ err = <<>>
    /\ params \in [pkgDir : PkgDirBases, source : BOOLEAN]
    /\ info \in [Hooks : {<<>>}, Relations : AllRelationMaps(MetaRelNames),
                 Config : {EmptyConfig}]
    /\ baseMeta = NoBase
    /\ disk \in {[built(params, [EmptyDisk EXCEPT !.goFile = TRUE]) EXCEPT !.meta = m] :
                    m \in {NoMetaFile, StaleMetaFile}}
    /\ hooks0 = EmptyDisk.hooks
    /\ written = {goFilePath, exePath(params)}
    /\ removed = {}
    /\ trace = <<"compile", "stat", "introspect", "writeHooks">>
    /\ reparse = "notrun"
    /\ tools = [NoTools EXCEPT !.go = "ok"]
    /\ builds = 1
    /\ edits = 0
    /\ StubInit
    /\ target = NoTarget
    /\ hostEnv = DefaultHostEnv
    /\ goEnv = compileEnv(hostEnv, TRUE)
    /\ envCall = [op |-> "compile", crossCompile |-> TRUE, entry |-> <<>>]

MetaNext == \E bm \in BaseMetas, io \in YamlIO : WriteMeta(bm, io)

MetaSpec == MetaSpecInit /\ [][MetaNext]_vars

---------------------------------------------------------------------------
(* Builds of one package whose config options change from build to build:  *)
(* every mapping of up to two option names to two option descriptions; no  *)
(* hooks, no relations, no vendoring, and only writeConfig may fail.       *)
PortOption == [Type |-> "int", Description |-> "port to listen on", Default |-> "80"]

AllConfigMaps ==
    UNION {[ks -> {DebugOption, PortOption}] : ks \in SUBSET {"debug", "port"}}

ConfigNext ==
    \/ Start(FALSE)
    \/ Compile("none", "ok")
    \/ StatExe
    \/ \E c \in AllConfigMaps :
          Introspect(TRUE, [Hooks |-> <<>>, Relations |-> EmptyRelations, Config |-> c])
    \/ WriteHooks(NoIOFailure)
    \/ \E bm \in {m \in BaseMetas : m.status = "ok"} : WriteMeta(bm, "none")
    \/ \E io \in YamlIO : WriteConfig(io)
    \/ ReadCharmDir(TRUE)

ConfigSpec == Init /\ [][ConfigNext]_vars

---------------------------------------------------------------------------
(* compile and setenv on their own, over the host environments: compile is *)
(* called with crossCompile true by buildCharm and false for the build of  *)
(* the program that reports the charm's registrations; setenv is called    *)
(* on os.Environ().                                                        *)
EnvSpecInit ==
    /\ BuildInit
    /\ params.pkgDir = CharmDirBase
    /\ StubInit
    /\ target = NoTarget
    /\ hostEnv \in HostEnvs
    /\ goEnv = <<>>
    /\ envCall = NoEnvCall

CompileEnv(crossCompile) ==
    /\ goEnv' = compileEnv(hostEnv, crossCompile)
    /\ envCall' = [op |-> "compile", crossCompile |-> crossCompile, entry |-> <<>>]
    /\ UNCHANGED <<buildVars, stubVars, hostEnv>>

Setenv(entry) ==
    /\ goEnv' = setenv(hostEnv, entry)
    /\ envCall' = [op |-> "setenv", crossCompile |-> FALSE, entry |-> entry]
    /\ UNCHANGED <<buildVars, stubVars, hostEnv>>

EnvNext ==
    \/ \E crossCompile \in BOOLEAN : CompileEnv(crossCompile)
    \/ \E entry \in SetenvEntries : Setenv(entry)

EnvSpec == EnvSpecInit /\ [][EnvNext]_vars

---------------------------------------------------------------------------
(* Helpers of the properties. *)
Range(f) == {f[i] : i \in DOMAIN f}

LastStage == IF trace = <<>> THEN "" ELSE trace[Len(trace)]

(* The stage has run and returned no error. *)
Completed(stage) ==
    \E i \in DOMAIN trace :
        /\ trace[i] = stage
        /\ i < Len(trace) \/ pc # "returned" \/ err = <<>>

(* The stage has run and returned, with or without an error. *)
Returned(stage) == stage \in Range(trace)

UnknownRole(relations) ==
    \E n \in DOMAIN relations :
        relations[n].Role \notin {RoleProvider, RoleRequirer, RolePeer}

---------------------------------------------------------------------------
(* C1: once writeHooks has succeeded, every hook script of the             *)
(* introspected hook set that was on disk when the build started still     *)
(* has the content it had then (stubs are written for missing hooks only). *)
C1_HookPreservation ==
    Completed("writeHooks") =>
        \A h \in Range(info.Hooks) :
            hooks0[h].exists => disk.hooks[h].content = hooks0[h].content

(* C2: the name in the written metadata.yaml is the base name of the       *)
(* destination charm directory, whatever the package directory is called.  *)
C2_NameIsCharmDirBase ==
    Completed("writeMeta") => disk.meta.data.Name = CharmDirBase

(* C3, as stated: a build whose introspected relations hold an unknown     *)
(* role fails without having written any file under the charm directory.   *)
C3_NothingWrittenOnUnknownRole ==
    (pc = "returned" /\ UnknownRole(info.Relations)) =>
        /\ err # <<>>
        /\ written \ {tmpExePath} = {}

(* C3, amended: a build whose introspected relations hold an unknown role  *)
(* fails; it has written neither metadata.yaml nor config.yaml nor the     *)
(* compile script, but the runhook source, the executable (without         *)
(* vendoring, when go build produced it) and, when it got as far as        *)
(* writeMeta, a stub for every hook have been written by then; writeMeta   *)
(* reports the unknown role.                                               *)
C3_UnknownRoleFailsBeforeDescriptors ==
    (pc = "returned" /\ UnknownRole(info.Relations)) =>
        /\ err # <<>>
        /\ written \cap {metaPath, configPath, compilePath} = {}
        /\ goFilePath \in written
        /\ (~params.source /\ tools.go = "ok") => binExePath \in written
        /\ LastStage \in {"writeHooks", "writeMeta"}
        /\ LastStage = "writeMeta" =>
              /\ \A h \in Range(info.Hooks) : hookPath(h) \in written
              /\ baseMeta.status = "ok" =>
                    err = <<"cannot write metadata.yaml", "unknown role in relation">>

C3_Witness ==
    /\ pc = "returned"
    /\ UnknownRole(info.Relations)
    /\ LastStage = "writeMeta"
    /\ baseMeta.status = "ok"
    /\ info.Hooks # <<>>
    /\ ~disk.meta.exists

(* C4: after a successful writeMeta the provides, requires and peers       *)
(* sections of the written metadata hold exactly the relations of          *)
(* CharmInfo, each under the section of its role and nowhere else, and no  *)
(* relation entry of the base metadata.yaml is left in any section.        *)
C4_RolePartitioning ==
    Completed("writeMeta") =>
        LET m == disk.meta.data
            rels == info.Relations
        IN  /\ disk.meta.exists
            /\ DOMAIN m.Provides = {n \in DOMAIN rels : rels[n].Role = RoleProvider}
            /\ DOMAIN m.Requires = {n \in DOMAIN rels : rels[n].Role = RoleRequirer}
            /\ DOMAIN m.Peers = {n \in DOMAIN rels : rels[n].Role = RolePeer}
            /\ DOMAIN m.Provides \cup DOMAIN m.Requires \cup DOMAIN m.Peers = DOMAIN rels
            /\ \A n \in DOMAIN m.Provides : m.Provides[n] = rels[n]
            /\ \A n \in DOMAIN m.Requires : m.Requires[n] = rels[n]
            /\ \A n \in DOMAIN m.Peers : m.Peers[n] = rels[n]

C4_Witness ==
    /\ Completed("writeMeta")
    /\ disk.meta.data.Provides # EmptyRelations
    /\ disk.meta.data.Requires # EmptyRelations
    /\ disk.meta.data.Peers # EmptyRelations
    /\ "ring" \notin DOMAIN disk.meta.data.Peers
    /\ baseMeta.status = "ok"

(* C5: a build in which charm.ReadCharmDir failed has returned the        *)
(* "charm will not read correctly" error right after that stage, with or   *)
(* without vendoring; a build that succeeded had a successful re-parse.    *)
C5_FailedReparseFailsBuild ==
    /\ reparse = "failed" =>
          /\ pc = "returned"
          /\ err # <<>>
          /\ err[1] = "charm will not read correctly; we've broken it, sorry"
          /\ LastStage = "readCharmDir"
    /\ Succeeded => reparse = "ok"

C5_Witness ==
    /\ reparse = "failed"
    /\ pc = "returned"
    /\ params.source
    /\ disk.meta.exists

(* C6: a stub execution that exits with status 0 has invoked               *)
(* $CHARM_DIR/bin/runhook with the hook's own name as its last command.    *)
C6_ExitZeroAfterRunhook ==
    status = "exit0" => (calls # <<>> /\ calls[Len(calls)] = stub.name)

(* C7: when godep is not found, vendorDeps returns the "godep executable   *)
(* not found" error that names the go get remediation; when godep is found *)
(* and fails, it returns another error.                                    *)
godepNotFound ==
    New("godep executable not found; get it with: go get github.com/tools/godep")

C7_GodepNotFoundDistinct ==
    /\ tools.godep = "notfound" =>
          /\ pc = "returned"
          /\ err = Wrapf(godepNotFound, "cannot get dependencies")
    /\ tools.godep = "fail" =>
          /\ pc = "returned"
          /\ err # <<>>
          /\ err # Wrapf(godepNotFound, "cannot get dependencies")
          /\ LastStage = "vendorDeps"

C7_Witness ==
    /\ tools.godep = "notfound"
    /\ tools.git = "ok"
    /\ LastStage = "vendorDeps"
    /\ pc = "returned"

(* C8: writeConfig with an empty config mapping changes no file and        *)
(* returns nil; with a non-empty mapping, when it returns nil it has       *)
(* written config.yaml holding exactly that mapping as its options, and    *)
(* nothing else; when it returns an error it has changed nothing.          *)
C8_WriteConfig ==
    [][pc = "writeConfig" =>
          IF DOMAIN info.Config = {}
          THEN disk' = disk /\ pc' = "readCharmDir" /\ err' = <<>>
          ELSE /\ pc' = "readCharmDir" =>
                     /\ disk'.config.exists
                     /\ disk'.config.data.Options = info.Config
                     /\ disk' = [disk EXCEPT !.config = disk'.config]
               /\ pc' = "returned" => (disk' = disk /\ err' # <<>>)]_vars

C8_Witness ==
    /\ LastStage = "writeConfig"
    /\ pc = "readCharmDir"
    /\ DOMAIN info.Config = {}
    /\ ~disk.config.exists
    /\ configPath \notin written

(* C9, as stated: after a successful build, with or without vendoring, the *)
(* bundle holds bin/runhook, a metadata descriptor and an executable hook  *)
(* script for every introspected hook name.                                *)
C9_BundleInvariant ==
    Succeeded =>
        /\ disk.binExe
        /\ disk.meta.exists
        /\ \A h \in Range(info.Hooks) : disk.hooks[h].exists /\ disk.hooks[h].exec

(* C9, amended: after a successful build the bundle holds a metadata       *)
(* descriptor and, for every introspected hook name, a hook script with    *)
(* the generated stub, executable if the build created it (a script that   *)
(* was there before keeps its mode); without vendoring it holds the        *)
(* executable bin/runhook; with vendoring the build has written no         *)
(* bin/runhook, and the bundle holds the runhook source and the compile    *)
(* script instead.                                                         *)
C9_BundleAfterSuccess ==
    Succeeded =>
        /\ disk.meta.exists
        /\ \A h \in Range(info.Hooks) :
              /\ disk.hooks[h].exists
              /\ disk.hooks[h].content = hookStub(params.source, h)
              /\ disk.hooks[h].exec = (IF hooks0[h].exists THEN hooks0[h].exec ELSE TRUE)
        /\ ~params.source => disk.binExe
        /\ params.source =>
              /\ binExePath \notin written
              /\ disk.goFile
              /\ disk.compile

C9_Witness ==
    /\ Succeeded
    /\ params.source
    /\ ~disk.binExe
    /\ Len(info.Hooks) = Cardinality(HookNames)

(* C10: once vendorDeps has returned, by whatever path, there is no .git   *)
(* directory under the bundle's src/runhook.                               *)
C10_GitDirRemoved ==
    Returned("vendorDeps") => ~disk.git

---------------------------------------------------------------------------
(* C11: each of writeHooks, writeMeta and writeConfig is idempotent: when  *)
(* the stage has succeeded, running it again with the same CharmInfo and   *)
(* the same base metadata leaves the bundle as it is; and running it after *)
(* a failed run of the same operation (whichever call failed) leaves the   *)
(* bundle as the first successful run left it.                             *)
C11_WriterIdempotence ==
    [][/\ (pc = "writeHooks" /\ pc' = "writeMeta") =>
             /\ writeHooks(params, disk', info.Hooks, NoIOFailure).disk = disk'
             /\ \A io \in HookIO(info.Hooks) :
                   writeHooks(params, writeHooks(params, disk, info.Hooks, io).disk,
                              info.Hooks, NoIOFailure).disk = disk'
       /\ (pc = "writeMeta" /\ pc' = "writeConfig") =>
             /\ writeMeta(params, disk', info.Relations, baseMeta', "none").disk = disk'
             /\ \A io \in YamlIO :
                   writeMeta(params,
                             writeMeta(params, disk, info.Relations, baseMeta', io).disk,
                             info.Relations, baseMeta', "none").disk = disk'
       /\ (pc = "writeConfig" /\ pc' = "readCharmDir") =>
             /\ writeConfig(params, disk', info.Config, "none").disk = disk'
             /\ \A io \in YamlIO :
                   writeConfig(params, writeConfig(params, disk, info.Config, io).disk,
                               info.Config, "none").disk = disk']_vars

(* A second build has rewritten two hooks, one of them hand-edited and not *)
(* executable, and a metadata.yaml and a config.yaml that were there.      *)
C11_Witness ==
    /\ pc = "readCharmDir"
    /\ builds = 2
    /\ Len(info.Hooks) = 2
    /\ \E h \in Range(info.Hooks) : hooks0[h].content = ManualContent /\ ~hooks0[h].exec
    /\ {metaPath, configPath} \subseteq written

---------------------------------------------------------------------------
(* C12: no step of buildCharm changes a hook script whose name is not in   *)
(* the build's hook set, so such a script is there with the same content   *)
(* after the build; and no step of buildCharm deletes a file of the bundle *)
(* other than the .git directory of vendorDeps.                            *)
C12_AdditiveHooks ==
    [][edits' = edits =>
          /\ \A h \in HookNames \ Range(info'.Hooks) : disk'.hooks[h] = disk.hooks[h]
          /\ \A h \in HookNames : disk.hooks[h].exists => disk'.hooks[h].exists
          /\ disk.goFile => disk'.goFile
          /\ disk.binExe => disk'.binExe
          /\ disk.meta.exists => disk'.meta.exists
          /\ disk.config.exists => disk'.config.exists
          /\ disk.compile => disk'.compile
          /\ removed' \subseteq {gitPath}]_vars

(* A vendoring build has succeeded on a bundle holding a hand-edited hook  *)
(* that is not in its hook set, and an earlier build's config.yaml which   *)
(* it did not write; the hook is as it was.                                *)
C12_Witness ==
    /\ Succeeded
    /\ params.source
    /\ info.Hooks # <<>>
    /\ \E h \in HookNames \ Range(info.Hooks) :
          /\ hooks0[h].content = ManualContent
          /\ disk.hooks[h] = hooks0[h]
    /\ disk.config.exists
    /\ configPath \notin written
    /\ gitPath \in removed

---------------------------------------------------------------------------
(* The stages of buildCharm in the order of its text. *)
StageOrder(source) ==
    <<"compile", "stat", "introspect", "writeHooks", "writeMeta", "writeConfig",
      "readCharmDir">>
        \o (IF source THEN <<"vendorDeps", "writeCompile">> ELSE <<>>)

(* There is a file at the path.  The disk of the model does not keep the   *)
(* Godeps directory that godep leaves.                                     *)
Exists(d, path) ==
    CASE path = goFilePath -> d.goFile
      [] path = binExePath -> d.binExe
      [] path = tmpExePath -> d.tmpExe
      [] path = metaPath -> d.meta.exists
      [] path = configPath -> d.config.exists
      [] path = compilePath -> d.compile
      [] path = gitPath -> d.git
      [] path \in {hookPath(h) : h \in HookNames} ->
           \E h \in HookNames : path = hookPath(h) /\ d.hooks[h].exists
      [] OTHER -> FALSE

(* C13: the stages a build has entered are an initial part of the fixed    *)
(* order (the two vendoring stages only with source set); a stage is       *)
(* entered only when every stage before it has returned nil; the stage     *)
(* that fails makes buildCharm return its error at once; a build that      *)
(* returns nil has run every stage; and whatever the stages wrote is still *)
(* on disk when the build has failed (nothing is rolled back).             *)
C13_StageOrder ==
    LET order == StageOrder(params.source)
    IN  /\ Len(trace) <= Len(order)
        /\ \A i \in DOMAIN trace : trace[i] = order[i]
        /\ pc \notin {"idle", "returned"} =>
              /\ err = <<>>
              /\ Len(trace) < Len(order)
              /\ pc = order[Len(trace) + 1]
        /\ pc = "returned" => (err # <<>> \/ trace = order)
        /\ tools.go \in {"fail", "notfound"} => (Failed /\ LastStage = "compile")
        /\ reparse = "failed" => (Failed /\ LastStage = "readCharmDir")
        /\ tools.git \notin {"", "ok"} => (Failed /\ LastStage = "vendorDeps")
        /\ tools.godep \notin {"", "ok"} => (Failed /\ LastStage = "vendorDeps")
        /\ Failed =>
              \A p \in written \ (removed \cup {godepsPath}) : Exists(disk, p)

(* A vendoring build has failed in vendorDeps with the hooks, the          *)
(* metadata and the config it wrote left in the bundle.                    *)
C13_Witness ==
    /\ Failed
    /\ LastStage = "vendorDeps"
    /\ trace = SubSeq(StageOrder(TRUE), 1, 8)
    /\ {metaPath, configPath, goFilePath} \subseteq written
    /\ info.Hooks # <<>>
    /\ disk.meta.exists /\ disk.config.exists

---------------------------------------------------------------------------
(* C14, as stated: once charm.ReadCharmDir has succeeded, no step of the   *)
(* build creates or changes a file, with or without vendoring.             *)
C14_NothingAfterReparse ==
    [][(reparse = "ok" /\ pc \notin {"idle", "returned"}) =>
          (disk' = disk /\ written' = written)]_vars

(* C14, amended: without vendoring a successful charm.ReadCharmDir is the  *)
(* last stage of the build; with vendoring vendorDeps and the writing of   *)
(* the compile script follow it, and they write nothing but .git and       *)
(* Godeps under src/runhook and the compile script: the hook scripts,      *)
(* metadata.yaml, config.yaml, the runhook source and bin/runhook are as   *)
(* the re-parse saw them.                                                  *)
C14_ReparseAfterCharmFiles ==
    [][(reparse = "ok" /\ pc \notin {"idle", "returned"}) =>
          /\ params.source
          /\ pc \in {"vendorDeps", "writeCompile"}
          /\ disk'.hooks = disk.hooks
          /\ disk'.meta = disk.meta
          /\ disk'.config = disk.config
          /\ disk'.goFile = disk.goFile
          /\ disk'.binExe = disk.binExe
          /\ written' \ written \subseteq {gitPath, godepsPath, compilePath}
          /\ (pc' = "returned" /\ err' = <<>>) => pc = "writeCompile"]_vars

(* A vendoring build has succeeded, having written Godeps and the compile  *)
(* script after the re-parse.                                              *)
C14_Witness ==
    /\ Succeeded
    /\ reparse = "ok"
    /\ params.source
    /\ {godepsPath, compilePath} \subseteq written
    /\ trace = StageOrder(TRUE)

---------------------------------------------------------------------------
(* C15: when `go build` has exited with status 0 and there is no file at   *)
(* the executable's path, buildCharm has returned the "runhook command not *)
(* built" error right after the os.Stat, which is not the error of a       *)
(* failed compile; introspection has not run and nothing but the runhook   *)
(* source has been written.                                                *)
C15_MissingExecutable ==
    /\ (/\ tools.go = "noexe"
        /\ Returned("stat")
        /\ ~(IF params.source THEN disk.tmpExe ELSE disk.binExe)) =>
          /\ Failed
          /\ err = New("runhook command not built")
          /\ LastStage = "stat"
          /\ info = NoInfo
          /\ written = {goFilePath}
    /\ tools.go \in {"fail", "notfound"} =>
          /\ Failed
          /\ err # New("runhook command not built")
          /\ err[1] = "cannot build hooks main package"

(* A build without vendoring has stopped at the os.Stat. *)
C15_Witness ==
    /\ tools.go = "noexe"
    /\ ~params.source
    /\ ~disk.binExe
    /\ pc = "returned"
    /\ trace = <<"compile", "stat">>

---------------------------------------------------------------------------
(* The text of the os/exec error for a command that is not in $PATH. *)
ExecNotFoundText == "executable file not found in $PATH"

(* An error made for the missing tool, as vendorDeps makes for godep: it   *)
(* takes the place of the os/exec error instead of wrapping it.            *)
DedicatedNotFound(e) == e # <<>> /\ ExecNotFoundText \notin Range(e)

(* C16, as stated: when go or git is not found the build fails with a      *)
(* dedicated "tool not found" error of the kind a missing godep gets.      *)
C16_ToolNotFoundDistinguished ==
    /\ tools.go = "notfound" => (Failed /\ DedicatedNotFound(err))
    /\ tools.git = "notfound" => (Failed /\ DedicatedNotFound(err))

(* C16, amended: when go or git is not found the build fails with the      *)
(* same wrapping as when the tool runs and fails ("failed to build",       *)
(* "cannot git init directory"); the two errors differ only in the os/exec *)
(* error they wrap, and no dedicated error is made: that is for godep      *)
(* alone.                                                                  *)
C16_ToolNotFoundWrapped ==
    /\ tools.go = "notfound" =>
          /\ Failed
          /\ err = <<"cannot build hooks main package", "failed to build",
                     "exec", "go", ExecNotFoundText>>
    /\ tools.go = "fail" =>
          /\ Failed
          /\ err = <<"cannot build hooks main package", "failed to build",
                     "exit status 1">>
    /\ tools.git = "notfound" =>
          /\ Failed
          /\ err = <<"cannot get dependencies", "cannot git init directory",
                     "exec", "git", ExecNotFoundText>>
    /\ tools.git \in {"fail", "failPartial"} =>
          /\ Failed
          /\ err = <<"cannot get dependencies", "cannot git init directory",
                     "exit status 1">>
    /\ tools.godep = "notfound" => (Failed /\ DedicatedNotFound(err))

(* A build has failed in compile because go is not in $PATH. *)
C16_Witness ==
    /\ tools.go = "notfound"
    /\ Failed
    /\ trace = <<"compile">>
    /\ ~DedicatedNotFound(err)

---------------------------------------------------------------------------
(* C17, as stated: after a successful build config.yaml exists exactly     *)
(* when that build's config mapping is non-empty, and then holds it.       *)
C17_ConfigFollowsLatestBuild ==
    Succeeded =>
        /\ disk.config.exists <=> (DOMAIN info.Config # {})
        /\ disk.config.exists => disk.config.data.Options = info.Config

(* C17, amended: config.yaml changes only in the writeConfig of a build    *)
(* whose config mapping is non-empty, and then holds that mapping; so when *)
(* a build with a non-empty mapping returns nil config.yaml holds exactly  *)
(* that mapping, and a build with an empty mapping leaves config.yaml as   *)
(* it found it, an earlier build's file included.                          *)
C17_ConfigFollowsNonEmptyBuilds ==
    [][/\ disk'.config # disk.config =>
             /\ pc = "writeConfig"
             /\ DOMAIN info.Config # {}
             /\ disk'.config.exists
             /\ disk'.config.data.Options = info.Config
       /\ (pc # "returned" /\ pc' = "returned" /\ err' = <<>>
              /\ DOMAIN info.Config # {}) =>
             /\ disk'.config.exists
             /\ disk'.config.data.Options = info.Config]_vars

(* A build with an empty config mapping has succeeded on a bundle where an *)
(* earlier build left a config.yaml.                                       *)
C17_Witness ==
    /\ Succeeded
    /\ builds = 2
    /\ DOMAIN info.Config = {}
    /\ disk.config.exists
    /\ DOMAIN disk.config.data.Options = {"debug", "port"}

---------------------------------------------------------------------------
(* C18: one execution of a hook stub invokes $CHARM_DIR/bin/runhook at     *)
(* most once, and with the hook's own name; the install stub on a target   *)
(* without the executable included.                                        *)
C18_SingleDispatch ==
    /\ Len(calls) <= 1
    /\ \A i \in DOMAIN calls : calls[i] = stub.name

---------------------------------------------------------------------------
(* C19: a build without vendoring runs neither git nor godep, writes no    *)
(* compile script, and has go build the executable at bin/runhook; a build *)
(* with vendoring writes the compile script only after git init and godep  *)
(* save have both succeeded, so a build that fails in vendorDeps has       *)
(* written no compile script.                                              *)
C19_VendoringGate ==
    /\ (~params.source /\ pc # "idle") =>
          /\ tools.git = "" /\ tools.godep = ""
          /\ ~Returned("vendorDeps") /\ ~Returned("writeCompile")
          /\ written \cap {compilePath, gitPath, godepsPath, tmpExePath} = {}
          /\ tools.go = "ok" => (binExePath \in written /\ disk.binExe)
    /\ params.source =>
          /\ Returned("writeCompile") =>
                (tools.git = "ok" /\ tools.godep = "ok" /\ godepsPath \in written)
          /\ compilePath \in written => Returned("writeCompile")
          /\ (Failed /\ LastStage = "vendorDeps") => compilePath \notin written

(* A vendoring build has failed in godep save, on a bundle with no compile *)
(* script.                                                                 *)
C19_Witness ==
    /\ params.source
    /\ Failed
    /\ LastStage = "vendorDeps"
    /\ tools.git = "ok"
    /\ tools.godep = "fail"
    /\ ~disk.compile

---------------------------------------------------------------------------
(* The variable an environment entry sets. *)
Key(entry) == SubSeq(entry, 1, Index(entry) - 1)

===========================================================================
